---- MODULE Spec2Model ----
(***************************************************************************)
(* Model of the two batch programs of the repository:                      *)
(*   image-prompter.py  (PhotoPromptGenerator): input-photos/ -> prompts/  *)
(*   generate-video.py  (SimpleVideoGenerator): prompts/ -> videos/        *)
(* File names are sequences of characters, so that the derivations of the  *)
(* code (Path.stem, Path.suffix, str.lower, str.replace, glob) are         *)
(* computed as the code computes them.  The remote services, the HTTP      *)
(* download and the file system are the environment: each call draws its   *)
(* outcome from the outcomes the call can have.                            *)
(***************************************************************************)
EXTENDS Integers, Sequences, FiniteSets, TLC

\* ------------------------------------------------------------------ bounds
\* Most status queries one job is given before the service must answer with
\* a terminal status (the code itself has no such limit).
MaxQueries == 3
\* Most chunks one download streams.
MaxChunks == 2

\* --------------------------------------------------------------- file names
PROMPT == <<"_", "p", "r", "o", "m", "p", "t">>
TXT == <<".", "t", "x", "t">>
JPG == <<".", "j", "p", "g">>
JPEG == <<".", "j", "p", "e", "g">>
PNG == <<".", "p", "n", "g">>
MP4 == <<".", "m", "p", "4">>

\* The listings of input-photos/ the runs start from
PhotoListings ==
    { {},
      { <<"a">> \o JPG },
      { <<"a">> \o JPG, <<"a">> \o PROMPT \o JPG },
      { <<"a">> \o JPG, <<"b", ".", "P", "N", "G">> },
      { <<"a">> \o JPEG, <<"b", ".", "P", "N", "G">> },
      { <<"a">> \o JPG, <<"a">> \o JPEG },
      { <<"a">> \o PROMPT \o JPG, <<"n">> \o TXT } }
\* The files prompts/ may hold before the prompt stage runs: a_prompt.txt
StalePromptCandidates == { <<"a">> \o PROMPT \o TXT }
\* The files videos/ may hold before the video stage runs: a.mp4
StaleVideoCandidates == { <<"a">> \o MP4 }

\* str.endswith, as fnmatch needs it for the pattern '*<suffix>'
EndsWith(s, suf) ==
    /\ Len(s) >= Len(suf)
    /\ SubSeq(s, Len(s) - Len(suf) + 1, Len(s)) = suf

MatchAt(s, i, pat) ==
    /\ i + Len(pat) - 1 <= Len(s)
    /\ SubSeq(s, i, i + Len(pat) - 1) = pat

\* str.replace(old, ''): every non-overlapping occurrence of old, scanned
\* from the left, is removed; the result is not scanned again.
RECURSIVE replaceFrom(_, _, _)
replaceFrom(s, old, i) ==
    IF i > Len(s) THEN <<>>
    ELSE IF MatchAt(s, i, old) THEN replaceFrom(s, old, i + Len(old))
    ELSE <<s[i]>> \o replaceFrom(s, old, i + 1)

replace(s, old) == replaceFrom(s, old, 1)

\* str.rfind('.') as a 1-based index, 0 when there is no dot
rfindDot(s) ==
    LET dots == { i \in 1..Len(s) : s[i] = "." }
    IN  IF dots = {} THEN 0 ELSE CHOOSE i \in dots : \A j \in dots : j <= i

\* pathlib's Path.suffix of a file name: from the last dot on, unless the dot
\* leads or ends the name
suffix(name) ==
    LET i == rfindDot(name)
    IN  IF i > 1 /\ i < Len(name) THEN SubSeq(name, i, Len(name)) ELSE <<>>

\* pathlib's Path.stem: the name without its suffix
stem(name) ==
    LET i == rfindDot(name)
    IN  IF i > 1 /\ i < Len(name) THEN SubSeq(name, 1, i - 1) ELSE name

lowerChar(c) ==
    CASE c = "J" -> "j"
      [] c = "P" -> "p"
      [] c = "E" -> "e"
      [] c = "G" -> "g"
      [] c = "N" -> "n"
      [] OTHER -> c

\* str.lower
lower(s) == [i \in 1..Len(s) |-> lowerChar(s[i])]

\* process_photos: image_extensions
image_extensions == { JPG, JPEG, PNG }

\* process_photos: image_path.suffix.lower() in image_extensions
IsImage(f) == lower(suffix(f)) \in image_extensions

\* save_prompt: output_file = f"{image_name}_prompt.txt"
output_file(image_stem) == image_stem \o PROMPT \o TXT

\* process_all_prompts: input_folder.glob('*_prompt.txt')
glob(dir) == { n \in dir : EndsWith(n, PROMPT \o TXT) }

\* generate_video: image_name = prompt_path.stem.replace('_prompt', '')
image_name(prompt_path) == replace(stem(prompt_path), PROMPT)

\* generate_video: image_path = input-photos/<image_name>.jpg
image_path(prompt_path) == image_name(prompt_path) \o JPG

\* the video named after the prompt file's stem, '_prompt' left in
output_path_of_stem(prompt_path) == stem(prompt_path) \o MP4

\* generate_video: output_path = videos/<image_name>.mp4
output_path(prompt_path) == image_name(prompt_path) \o MP4


\* ------------------------------------------------------------------- state
VARIABLES
    photos,      \* names of the entries of input-photos/
    prompts,     \* prompts/: file name -> "old" | "empty" | "text"
    videos,      \* videos/: file name -> "old" | "partial" | "complete"
    dirs,        \* which of the directories "prompts", "videos" exist
    startVideos, \* the names videos/ held before the run
    runwayKey,   \* os.getenv('RUNWAY_API_KEY'): "unset" | "empty" | "set"
    pc,          \* position of the running program
    ptodo,       \* entries iterdir() has still to yield
    pcur,        \* process_photos: image_path
    vtodo,       \* prompt files glob() has still to yield
    vcur,        \* process_all_prompts: prompt_path
    chunks,      \* download_video: chunks written so far
    img,         \* per input entry: what the prompt stage did for it
    item,        \* per prompt file: what the video stage did for it
    mainLog      \* messages logged by main() of generate-video.py

vars == <<photos, prompts, videos, dirs, startVideos, runwayKey, pc, ptodo,
          pcur, vtodo, vcur, chunks, img, item, mainLog>>

NoFile == <<>>

\* a directory as a function from file name to file state
Put(dir, name, state) ==
    [n \in DOMAIN dir \cup {name} |-> IF n = name THEN state ELSE dir[n]]

ImgInit ==
    [started |-> FALSE, requests |-> 0, vision |-> "none", save |-> "none",
     logs |-> {}]

ItemInit ==
    [started |-> FALSE, done |-> FALSE, calls |-> 0, creates |-> 0,
     waits |-> 0, queries |-> 0, status |-> "none", output |-> "none",
     downloads |-> 0, download |-> "none", returned |-> "none", logs |-> {}]

Init ==
    /\ photos \in PhotoListings
    /\ \E stale \in SUBSET StalePromptCandidates :
          prompts = [n \in stale |-> "old"]
    /\ startVideos \in SUBSET StaleVideoCandidates
    /\ videos = [n \in startVideos |-> "old"]
    /\ dirs = (IF DOMAIN prompts = {} THEN {} ELSE {"prompts"})
                \cup (IF startVideos = {} THEN {} ELSE {"videos"})
    /\ runwayKey \in {"unset", "empty", "set"}
    /\ pc = "p_start"
    /\ ptodo = {}
    /\ pcur = NoFile
    /\ vtodo = {}
    /\ vcur = NoFile
    /\ chunks = 0
    /\ img = [f \in photos |-> ImgInit]
    /\ item = [p \in {} |-> ItemInit]
    /\ mainLog = {}

\* ------------------------------------------------ image-prompter.py
\* every returned value is saved
Truthy_always(content) == TRUE

\* `if prompt:` in process_photos: the returned content is saved when truthy
Truthy(content) == content = "text"

\* process_photos: the output folder is made and the input folder listed
process_photos_start ==
    /\ pc = "p_start"
    /\ dirs' = dirs \cup {"prompts"}
    /\ ptodo' = photos
    /\ pc' = "p_loop"
    /\ UNCHANGED <<photos, prompts, videos, startVideos, runwayKey, pcur,
                   vtodo, vcur, chunks, img, item, mainLog>>

\* process_photos: the loop yields an entry whose suffix is no image suffix
process_photos_skip ==
    /\ pc = "p_loop"
    /\ \E f \in ptodo :
          /\ ~IsImage(f)
          /\ ptodo' = ptodo \ {f}
    /\ UNCHANGED <<photos, prompts, videos, dirs, startVideos, runwayKey, pc,
                   pcur, vtodo, vcur, chunks, img, item, mainLog>>

\* process_photos: the loop yields an image; "Processing <name>" is logged
process_photos_next ==
    /\ pc = "p_loop"
    /\ \E f \in ptodo :
          /\ IsImage(f)
          /\ ptodo' = ptodo \ {f}
          /\ pcur' = f
          /\ img' = [img EXCEPT ![f].started = TRUE,
                                ![f].logs = @ \cup {"Processing"}]
    /\ pc' = "p_encode"
    /\ UNCHANGED <<photos, prompts, videos, dirs, startVideos, runwayKey,
                   vtodo, vcur, chunks, item, mainLog>>

\* get_image_prompt: encode_image(image_path), called before the try block;
\* an error reading the file leaves get_image_prompt, process_photos and main
encode_image ==
    /\ pc = "p_encode"
    /\ \E ok \in BOOLEAN :
          pc' = IF ok THEN "p_request" ELSE "p_crashed"
    /\ UNCHANGED <<photos, prompts, videos, dirs, startVideos, runwayKey,
                   ptodo, pcur, vtodo, vcur, chunks, img, item, mainLog>>

\* get_image_prompt: the request to the vision API inside the try block, and
\* `if prompt:` of process_photos.  The call returns text, returns an empty
\* or absent content, or raises (API error, malformed response).
get_image_prompt ==
    /\ pc = "p_request"
    /\ \E content \in {"text", "blank", "error"} :
          /\ img' = [img EXCEPT
                ![pcur].requests = @ + 1,
                ![pcur].vision = content,
                ![pcur].logs = IF content = "error"
                               THEN @ \cup {"Error generating prompt"} ELSE @]
          /\ pc' = IF Truthy(content) THEN "p_save" ELSE "p_loop"
    /\ UNCHANGED <<photos, prompts, videos, dirs, startVideos, runwayKey,
                   ptodo, pcur, vtodo, vcur, chunks, item, mainLog>>

\* save_prompt(image_path.stem, prompt): open(output_file, 'w') creates or
\* truncates the file, write fills it; either may raise, which is logged
save_prompt ==
    /\ pc = "p_save"
    /\ \E res \in {"ok", "open_error", "write_error"} :
          /\ prompts' = CASE res = "ok" ->
                               Put(prompts, output_file(stem(pcur)), "text")
                          [] res = "write_error" ->
                               Put(prompts, output_file(stem(pcur)), "empty")
                          [] OTHER -> prompts
          /\ img' = [img EXCEPT
                ![pcur].save = res,
                ![pcur].logs = @ \cup {IF res = "ok" THEN "Saved prompt"
                                       ELSE "Error saving prompt"}]
    /\ pc' = "p_loop"
    /\ UNCHANGED <<photos, videos, dirs, startVideos, runwayKey, ptodo, pcur,
                   vtodo, vcur, chunks, item, mainLog>>

\* process_photos: the loop is exhausted
process_photos_end ==
    /\ pc = "p_loop"
    /\ ptodo = {}
    /\ pc' = "p_done"
    /\ pcur' = NoFile
    /\ UNCHANGED <<photos, prompts, videos, dirs, startVideos, runwayKey,
                   ptodo, vtodo, vcur, chunks, img, item, mainLog>>

PromptStageOver == pc \notin
    {"p_start", "p_loop", "p_encode", "p_request", "p_save"}


\* ------------------------------------------------ generate-video.py
Statuses == {"PENDING", "RUNNING", "SUCCEEDED", "FAILED"}

\* only an unset key is refused
KeyMissing_only_unset(key) == key = "unset"

\* __init__: `if not self.runway_key`
KeyMissing(key) == key \in {"unset", "empty"}

\* the loop ends on RUNNING too
IsTerminal_running_too(status) == status \in {"SUCCEEDED", "FAILED", "RUNNING"}

\* the loop ends on SUCCEEDED alone
IsTerminal_only_succeeded(status) == status = "SUCCEEDED"

\* generate_video: `task.status not in ['SUCCEEDED', 'FAILED']` is false
IsTerminal(status) == status \in {"SUCCEEDED", "FAILED"}

\* the lookup is skipped
image_exists_always(path) == TRUE

\* generate_video: `image_path.exists()` (names compared as they are spelt)
image_exists(path) == path \in photos

\* What tasks.retrieve may answer to the next query of the current job: a
\* task with its status and, when it succeeded, its output (None, [], or a
\* list whose first entry is a URL); the last query the bound allows is
\* answered with a terminal status.
Responses(asked) ==
    { [status |-> s, output |-> "none"] :
        s \in IF asked + 1 >= MaxQueries THEN {"FAILED"}
              ELSE Statuses \ {"SUCCEEDED"} }
    \cup { [status |-> "SUCCEEDED", output |-> o] :
             o \in {"none", "empty", "url"} }

\* a succeeded task without output is handled as a failed one
result_branch_reclassified(status, output) ==
    IF status = "SUCCEEDED" /\ output \notin {"none", "empty"}
    THEN IF output = "blank" THEN "no_url" ELSE "download"
    ELSE "failed"

\* the test of the status is inverted
result_branch_inverted(status, output) ==
    IF status # "SUCCEEDED"
    THEN CASE output \in {"none", "empty"} -> "unbound"
           [] output = "blank" -> "no_url"
           [] OTHER -> "download"
    ELSE "failed"

\* generate_video, the statements after the poll loop: which branch a task
\* takes.  With output None or [] video_url is never bound and `if video_url:`
\* raises UnboundLocalError; a first entry that is an empty string ("blank")
\* would take the else branch of `if video_url:`.
result_branch(status, output) ==
    IF status = "SUCCEEDED"
    THEN CASE output \in {"none", "empty"} -> "unbound"
           [] output = "blank" -> "no_url"
           [] OTHER -> "download"
    ELSE "failed"

Log(rec, msgs) == [rec EXCEPT !.logs = @ \cup msgs]

\* the loop of process_all_prompts is left after the first generate_video
Return_and_break(rec) ==
    /\ item' = [item EXCEPT ![vcur] = [rec EXCEPT !.done = TRUE]]
    /\ pc' = "v_done"
    /\ mainLog' = mainLog

\* generate_video returns to the loop of process_all_prompts
Return(rec) ==
    /\ item' = [item EXCEPT ![vcur] = [rec EXCEPT !.done = TRUE]]
    /\ pc' = "v_loop"
    /\ mainLog' = mainLog

\* the exception leaves generate_video and process_all_prompts and is caught
\* by main
Propagate(rec) ==
    /\ item' = [item EXCEPT ![vcur] = [rec EXCEPT !.done = TRUE]]
    /\ pc' = "v_done"
    /\ mainLog' = mainLog \cup {"Error in main"}

\* the handler starts generate_video again for the same prompt file
Raise_retry(rec) ==
    /\ item' = [item EXCEPT ![vcur] = Log(rec, {"Error processing"})]
    /\ pc' = "g_read"
    /\ mainLog' = mainLog

\* generate_video: an exception raised inside the try block is caught by
\* `except Exception`, logged, and generate_video returns
Raise(rec) == Return(Log(rec, {"Error processing"}))

\* the handler of download_video returns True
download_failed_returns_true(rec) ==
    Return([Log(rec, {"Error downloading video", "Video generation complete"})
               EXCEPT !.returned = "True"])

\* download_video: an exception inside its try block is caught and logged,
\* False is returned, and generate_video logs the failed download
download_failed(rec) ==
    Return([Log(rec, {"Error downloading video", "Failed to download video"})
               EXCEPT !.returned = "False"])

\* download_video: a statement of its try block raised
Interrupted(rec) == [rec EXCEPT !.download = "interrupted"]

\* main: SimpleVideoGenerator(...) is constructed inside main's try block
main ==
    /\ pc \in {"p_done", "p_crashed"}
    /\ IF KeyMissing(runwayKey)
       THEN /\ mainLog' = mainLog \cup {"Error in main"}
            /\ pc' = "v_done"
       ELSE /\ mainLog' = mainLog
            /\ pc' = "v_start"
    /\ pcur' = NoFile
    /\ UNCHANGED <<photos, prompts, videos, dirs, startVideos, runwayKey,
                   ptodo, vtodo, vcur, chunks, img, item>>

\* process_all_prompts: output_folder.mkdir(exist_ok=True), then the glob
process_all_prompts_start ==
    /\ pc = "v_start"
    /\ \E ok \in BOOLEAN :
          IF ok
          THEN /\ dirs' = dirs \cup {"videos"}
               /\ vtodo' = glob(DOMAIN prompts)
               /\ item' = [p \in glob(DOMAIN prompts) |-> ItemInit]
               /\ pc' = "v_loop"
               /\ mainLog' = mainLog
          ELSE /\ mainLog' = mainLog \cup {"Error in main"}
               /\ pc' = "v_done"
               /\ UNCHANGED <<dirs, vtodo, item>>
    /\ UNCHANGED <<photos, prompts, videos, startVideos, runwayKey, ptodo,
                   pcur, vcur, chunks, img>>

\* process_all_prompts: the loop yields a prompt file and calls generate_video
process_all_prompts_next ==
    /\ pc = "v_loop"
    /\ \E p \in vtodo :
          /\ vtodo' = vtodo \ {p}
          /\ vcur' = p
          /\ item' = [item EXCEPT ![p].started = TRUE,
                                  ![p].calls = @ + 1,
                                  ![p].logs = @ \cup {"Processing"}]
    /\ pc' = "g_read"
    /\ UNCHANGED <<photos, prompts, videos, dirs, startVideos, runwayKey,
                   ptodo, pcur, chunks, img, mainLog>>

\* process_all_prompts: the loop is exhausted and main returns
process_all_prompts_end ==
    /\ pc = "v_loop"
    /\ vtodo = {}
    /\ pc' = "v_done"
    /\ vcur' = NoFile
    /\ UNCHANGED <<photos, prompts, videos, dirs, startVideos, runwayKey,
                   ptodo, pcur, vtodo, chunks, img, item, mainLog>>

\* generate_video: the prompt file is opened and read
generate_video_read ==
    /\ pc = "g_read"
    /\ \E ok \in BOOLEAN :
          IF ok
          THEN pc' = "g_find" /\ UNCHANGED <<item, mainLog>>
          ELSE Raise(item[vcur])
    /\ UNCHANGED <<photos, prompts, videos, dirs, startVideos, runwayKey,
                   ptodo, pcur, vtodo, vcur, chunks, img>>

\* generate_video: the companion image is looked up
generate_video_find ==
    /\ pc = "g_find"
    /\ IF image_exists(image_path(vcur))
       THEN /\ item' = [item EXCEPT
                  ![vcur] = Log(@, {"Creating video generation task"})]
            /\ pc' = "g_encode"
            /\ mainLog' = mainLog
       ELSE Return(Log(item[vcur], {"Could not find image"}))
    /\ UNCHANGED <<photos, prompts, videos, dirs, startVideos, runwayKey,
                   ptodo, pcur, vtodo, vcur, chunks, img>>

\* generate_video: the image file is read and encoded
generate_video_encode ==
    /\ pc = "g_encode"
    /\ \E ok \in BOOLEAN :
          IF ok
          THEN pc' = "g_create" /\ UNCHANGED <<item, mainLog>>
          ELSE Raise(item[vcur])
    /\ UNCHANGED <<photos, prompts, videos, dirs, startVideos, runwayKey,
                   ptodo, pcur, vtodo, vcur, chunks, img>>

\* generate_video: image_to_video.create and task.id; the request fails or
\* its answer has no id, or a task is created
generate_video_create ==
    /\ pc = "g_create"
    /\ \E ok \in BOOLEAN :
          LET rec == [item[vcur] EXCEPT !.creates = @ + 1]
          IN  IF ok
              THEN /\ item' = [item EXCEPT ![vcur] = rec]
                   /\ pc' = "g_first_wait"
                   /\ mainLog' = mainLog
              ELSE Raise(rec)
    /\ UNCHANGED <<photos, prompts, videos, dirs, startVideos, runwayKey,
                   ptodo, pcur, vtodo, vcur, chunks, img>>

\* the first status query follows the creation without a wait
generate_video_no_first_wait ==
    /\ pc = "g_first_wait"
    /\ pc' = "g_first_retrieve"
    /\ UNCHANGED <<photos, prompts, videos, dirs, startVideos, runwayKey,
                   ptodo, pcur, vtodo, vcur, chunks, img, item, mainLog>>

\* generate_video: time.sleep(10) after the creation
generate_video_first_wait ==
    /\ pc = "g_first_wait"
    /\ item' = [item EXCEPT ![vcur].waits = @ + 1]
    /\ pc' = "g_first_retrieve"
    /\ UNCHANGED <<photos, prompts, videos, dirs, startVideos, runwayKey,
                   ptodo, pcur, vtodo, vcur, chunks, img, mainLog>>

\* a status query: tasks.retrieve raises (or answers without id or status),
\* or answers with a task
Retrieve(next, msg) ==
    \/ Raise([item[vcur] EXCEPT !.queries = @ + 1])
    \/ \E r \in Responses(item[vcur].queries) :
          /\ item' = [item EXCEPT
                ![vcur].queries = @ + 1,
                ![vcur].status = r.status,
                ![vcur].output = r.output,
                ![vcur].logs = @ \cup {msg}]
          /\ pc' = next
          /\ mainLog' = mainLog

\* generate_video: the first tasks.retrieve, before the loop
generate_video_first_retrieve ==
    /\ pc = "g_first_retrieve"
    /\ Retrieve("g_while", "Waiting for task")
    /\ UNCHANGED <<photos, prompts, videos, dirs, startVideos, runwayKey,
                   ptodo, pcur, vtodo, vcur, chunks, img>>

\* generate_video: the test of the while loop
generate_video_while ==
    /\ pc = "g_while"
    /\ pc' = IF IsTerminal(item[vcur].status)
             THEN "g_result" ELSE "g_wait"
    /\ UNCHANGED <<photos, prompts, videos, dirs, startVideos, runwayKey,
                   ptodo, pcur, vtodo, vcur, chunks, img, item, mainLog>>

\* generate_video: time.sleep(10) in the loop
generate_video_wait ==
    /\ pc = "g_wait"
    /\ item' = [item EXCEPT ![vcur].waits = @ + 1]
    /\ pc' = "g_retrieve"
    /\ UNCHANGED <<photos, prompts, videos, dirs, startVideos, runwayKey,
                   ptodo, pcur, vtodo, vcur, chunks, img, mainLog>>

\* generate_video: tasks.retrieve in the loop
generate_video_retrieve ==
    /\ pc = "g_retrieve"
    /\ Retrieve("g_while", "Task status")
    /\ UNCHANGED <<photos, prompts, videos, dirs, startVideos, runwayKey,
                   ptodo, pcur, vtodo, vcur, chunks, img>>

\* generate_video: the statements after the loop, up to the call of
\* download_video
generate_video_result ==
    /\ pc = "g_result"
    /\ LET rec == item[vcur]
           branch == result_branch(rec.status, rec.output)
       IN  CASE branch = "failed" -> Return(Log(rec, {"Task failed"}))
             [] branch = "unbound" -> Raise(Log(rec, {"No output url"}))
             [] branch = "no_url" ->
                    Return(Log(rec, {"Video URL",
                                     "No video URL in task output"}))
             [] OTHER ->
                    /\ item' = [item EXCEPT ![vcur] =
                          [Log(rec, {"Video URL"}) EXCEPT !.downloads = @ + 1,
                                                          !.download = "started"]]
                    /\ pc' = "d_get"
                    /\ mainLog' = mainLog
    /\ UNCHANGED <<photos, prompts, videos, dirs, startVideos, runwayKey,
                   ptodo, pcur, vtodo, vcur, chunks, img>>

\* download_video: requests.get(url, stream=True) and raise_for_status()
download_video_get ==
    /\ pc = "d_get"
    /\ \E res \in {"ok", "request_error", "http_error"} :
          IF res = "ok"
          THEN pc' = "d_open" /\ UNCHANGED <<item, mainLog>>
          ELSE download_failed(Interrupted(item[vcur]))
    /\ UNCHANGED <<photos, prompts, videos, dirs, startVideos, runwayKey,
                   ptodo, pcur, vtodo, vcur, chunks, img>>

\* download_video: open(output_path, 'wb') creates or truncates the file
download_video_open ==
    /\ pc = "d_open"
    /\ \E ok \in BOOLEAN :
          IF ok
          THEN /\ videos' = Put(videos, output_path(vcur), "partial")
               /\ pc' = "d_stream"
               /\ UNCHANGED <<item, mainLog>>
          ELSE /\ download_failed(Interrupted(item[vcur]))
               /\ videos' = videos
    /\ UNCHANGED <<photos, prompts, dirs, startVideos, runwayKey, ptodo, pcur,
                   vtodo, vcur, chunks, img>>

\* download_video: one pass of the loop over iter_content: a chunk is read
\* and written, or reading or writing raises
download_video_chunk ==
    /\ pc = "d_stream"
    /\ \/ /\ chunks < MaxChunks
          /\ chunks' = chunks + 1
          /\ UNCHANGED <<pc, item, mainLog>>
       \/ /\ download_failed(Interrupted(item[vcur]))
          /\ chunks' = 0
    /\ UNCHANGED <<photos, prompts, videos, dirs, startVideos, runwayKey,
                   ptodo, pcur, vtodo, vcur, img>>

\* download_video: the stream is exhausted, the file is closed, True is
\* returned and generate_video reports the video as complete
download_video_end ==
    /\ pc = "d_stream"
    /\ videos' = Put(videos, output_path(vcur), "complete")
    /\ Return([Log(item[vcur], {"Successfully downloaded video",
                                "Video generation complete"})
                  EXCEPT !.returned = "True", !.download = "finished"])
    /\ chunks' = 0
    /\ UNCHANGED <<photos, prompts, dirs, startVideos, runwayKey, ptodo, pcur,
                   vtodo, vcur, img>>

Next ==
    \/ process_photos_start
    \/ process_photos_skip
    \/ process_photos_next
    \/ encode_image
    \/ get_image_prompt
    \/ save_prompt
    \/ process_photos_end
    \/ main
    \/ process_all_prompts_start
    \/ process_all_prompts_next
    \/ process_all_prompts_end
    \/ generate_video_read
    \/ generate_video_find
    \/ generate_video_encode
    \/ generate_video_create
    \/ generate_video_first_wait
    \/ generate_video_first_retrieve
    \/ generate_video_while
    \/ generate_video_wait
    \/ generate_video_retrieve
    \/ generate_video_result
    \/ download_video_get
    \/ download_video_open
    \/ download_video_chunk
    \/ download_video_end

Spec == Init /\ [][Next]_vars

\* Both programs are single-threaded and blocking: as long as a statement is
\* left to execute and the calls it makes return, it is executed.
FairSpec == Init /\ [][Next]_vars /\ WF_vars(Next)

\* ------------------------------------------------------------------ claims
ErrorMessages ==
    {"Error processing", "Could not find image", "Task failed",
     "No output url", "No video URL in task output",
     "Error downloading video", "Failed to download video"}

\* the job of an item was observed SUCCEEDED with a non-empty output list
SucceededWithOutput(rec) ==
    rec.status = "SUCCEEDED" /\ rec.output \in {"blank", "url"}

\* videos/<name>.mp4 of an item, <name> being the prompt file's stem without
\* every '_prompt'
VideoOf(p) == replace(stem(p), PROMPT) \o MP4

CompanionOf(p) == replace(stem(p), PROMPT) \o JPG

\* C1 as stated: started from an empty videos/, once generate_video has
\* finished for a prompt file whose companion image exists, videos/<name>.mp4
\* exists if and only if its job was observed SUCCEEDED with a non-empty
\* output list.
C1_VideoIffSucceeded ==
    startVideos = {} =>
        \A p \in DOMAIN item :
            (item[p].done /\ CompanionOf(p) \in photos) =>
                (VideoOf(p) \in DOMAIN videos <=> SucceededWithOutput(item[p]))

\* C1 amended: started from an empty videos/, once generate_video has
\* finished for a prompt file whose companion image exists, videos/<name>.mp4
\* exists if download_video returned True for it, and exists only if the job
\* of a prompt file deriving the same <name> was observed SUCCEEDED with a
\* non-empty output list.
C1_VideoOnlyIfSucceeded ==
    startVideos = {} =>
        \A p \in DOMAIN item :
            (item[p].done /\ CompanionOf(p) \in photos) =>
                /\ item[p].returned = "True" => VideoOf(p) \in DOMAIN videos
                /\ VideoOf(p) \in DOMAIN videos =>
                      \E q \in DOMAIN item :
                          /\ VideoOf(q) = VideoOf(p)
                          /\ SucceededWithOutput(item[q])

\* C1 witness: a finished item with companion image whose download returned
\* True, next to a finished item whose job succeeded with a URL and whose
\* download did not
C1_Witness ==
    /\ startVideos = {}
    /\ \E p, q \in DOMAIN item :
          /\ item[p].done /\ CompanionOf(p) \in photos
          /\ item[p].returned = "True"
          /\ VideoOf(p) \in DOMAIN videos
          /\ item[q].done /\ CompanionOf(q) \in photos
          /\ SucceededWithOutput(item[q])
          /\ item[q].returned = "False"

\* C2: the poll loop ends exactly at the first status in {SUCCEEDED, FAILED}:
\* the result handling and the download are reached only with such a status,
\* an item whose polling ended on another status ended by an exception of a
\* query, and no status query is issued after a query returned SUCCEEDED or
\* FAILED.
C2_PollUntilTerminal ==
    /\ [](\A p \in DOMAIN item :
            /\ (p = vcur /\ pc \in {"g_result", "d_get", "d_open", "d_stream"})
                  => item[p].status \in {"SUCCEEDED", "FAILED"}
            /\ (item[p].done /\ item[p].queries > 0
                   /\ item[p].status \notin {"SUCCEEDED", "FAILED"})
                  => "Error processing" \in item[p].logs
            /\ (p = vcur /\ pc \in {"g_wait", "g_retrieve"})
                  => item[p].status \in {"PENDING", "RUNNING"})
    /\ [][\A p \in DOMAIN item \cap DOMAIN item' :
            item'[p].queries > item[p].queries
                => item[p].status \notin {"SUCCEEDED", "FAILED"}]_vars

\* C2 witness: a job in its result handling after three status queries
C2_Witness ==
    /\ pc = "g_result"
    /\ item[vcur].queries = 3
    /\ item[vcur].waits = 3

\* C3: a failure of one prompt file is logged and does not end the run: when
\* the video stage is over every prompt file of the glob was given to
\* generate_video, which returned, main logged no error, and every item that
\* did not end with a complete video has an error message.
C3_VideoFailureDoesNotAbort ==
    /\ (pc = "v_done" /\ DOMAIN item # {}) =>
          /\ mainLog = {}
          /\ \A p \in DOMAIN item : item[p].started /\ item[p].done
    /\ \A p \in DOMAIN item :
          (item[p].done /\ "Video generation complete" \notin item[p].logs)
              => item[p].logs \cap ErrorMessages # {}

\* C3 witness: the stage is over and two items ended with a caught exception,
\* so the one that failed first was followed by the other
C3_Witness ==
    /\ pc = "v_done"
    /\ \E p, q \in DOMAIN item :
          /\ p # q
          /\ "Error processing" \in item[p].logs /\ item[p].creates = 1
          /\ "Error downloading video" \in item[q].logs

\* the prompt stage has finished with an image: it is back in the loop, over,
\* or busy with another entry
PhotoFinished(f) ==
    /\ img[f].started
    /\ ~(pcur = f /\ pc \in {"p_encode", "p_request", "p_save"})

\* C4 as stated: a failure while processing one image does not end the run of
\* the prompt stage: when the stage is over, every image of input-photos/ was
\* processed.
C4_PhotoFailureDoesNotAbort ==
    PromptStageOver => \A f \in photos : IsImage(f) => img[f].started

\* C5: for a prompt file whose companion image does not exist no creation
\* request, wait, status query or download happens, and generate_video ends
\* with the error 'Could not find image' (or with the error of an unreadable
\* prompt file).
C5_NoJobWithoutImage ==
    \A p \in DOMAIN item :
        CompanionOf(p) \notin photos =>
            /\ item[p].creates = 0 /\ item[p].waits = 0
            /\ item[p].queries = 0 /\ item[p].downloads = 0
            /\ item[p].done =>
                  \/ "Could not find image" \in item[p].logs
                  \/ "Error processing" \in item[p].logs
            /\ (p = vcur => pc \in {"g_read", "g_find", "v_loop", "v_done"})

\* C5 witness: generate_video returned after the lookup found no image
C5_Witness ==
    \E p \in DOMAIN item :
        /\ item[p].done
        /\ CompanionOf(p) \notin photos
        /\ "Could not find image" \in item[p].logs

\* C6: an interrupted download leaves neither 'Successfully downloaded video'
\* nor 'Video generation complete' for its item, and download_video returns
\* False.
C6_InterruptedDownload ==
    \A p \in DOMAIN item :
        item[p].download = "interrupted" =>
            /\ item[p].returned = "False"
            /\ "Successfully downloaded video" \notin item[p].logs
            /\ "Video generation complete" \notin item[p].logs
            /\ "Error downloading video" \in item[p].logs

\* C6 witness: a download interrupted after the file was opened and a chunk
\* written
C6_Witness ==
    \E p \in DOMAIN item :
        /\ item[p].download = "interrupted"
        /\ VideoOf(p) \in DOMAIN videos
        /\ videos[VideoOf(p)] = "partial"

\* C7 as stated: for every processed image, prompts/<name>_prompt.txt is
\* written during the run if the vision API call succeeded (read here as: it
\* returned a prompt text), and save_prompt writes nothing for it if the call
\* failed.
C7_PromptIffVisionSucceeded ==
    \A f \in photos :
        PhotoFinished(f) =>
            /\ img[f].vision = "text" =>
                  /\ output_file(stem(f)) \in DOMAIN prompts
                  /\ prompts[output_file(stem(f))] = "text"
            /\ img[f].vision = "error" => img[f].save = "none"

\* C7 amended: for every processed image, prompts/<name>_prompt.txt is written
\* during the run if the vision API call returned a non-empty text and neither
\* opening nor writing the file raised; save_prompt is not called for it, so
\* nothing is written for it, if the call failed or returned no text.
C7_PromptWrittenWhenSaved ==
    \A f \in photos :
        PhotoFinished(f) =>
            /\ img[f].vision = "text" => img[f].save # "none"
            /\ img[f].save = "ok" =>
                  /\ output_file(stem(f)) \in DOMAIN prompts
                  /\ prompts[output_file(stem(f))] # "old"
                  /\ "Saved prompt" \in img[f].logs
            /\ img[f].vision \in {"error", "blank"} =>
                  /\ img[f].save = "none"
                  /\ "Saved prompt" \notin img[f].logs

\* C7 witness: one image whose prompt was saved and one whose call failed
C7_Witness ==
    \E f, g \in photos :
        /\ PhotoFinished(f) /\ img[f].vision = "text" /\ img[f].save = "ok"
        /\ prompts[output_file(stem(f))] = "text"
        /\ PhotoFinished(g) /\ img[g].vision = "error"

\* C8: a job SUCCEEDED with an empty or absent output list gets an error
\* message, no download, no 'Video generation complete' and no 'Task failed'.
C8_SucceededWithoutOutput ==
    \A p \in DOMAIN item :
        (item[p].done /\ item[p].status = "SUCCEEDED"
            /\ item[p].output \in {"none", "empty"}) =>
            /\ "No output url" \in item[p].logs
            /\ item[p].downloads = 0 /\ item[p].download = "none"
            /\ "Video generation complete" \notin item[p].logs
            /\ "Task failed" \notin item[p].logs

\* C8 witness: generate_video returned for a job SUCCEEDED with output []
C8_Witness ==
    \E p \in DOMAIN item :
        /\ item[p].done
        /\ item[p].status = "SUCCEEDED"
        /\ item[p].output = "empty"
        /\ "No output url" \in item[p].logs

\* C9: a download is attempted only for a job whose terminal status is
\* SUCCEEDED; a job whose polling ended in FAILED gets the error 'Task failed'
\* and no download.
C9_DownloadOnlyWhenSucceeded ==
    \A p \in DOMAIN item :
        /\ item[p].downloads > 0 => item[p].status = "SUCCEEDED"
        /\ item[p].status = "FAILED" =>
              /\ item[p].downloads = 0 /\ item[p].download = "none"
              /\ item[p].done => "Task failed" \in item[p].logs

\* C9 witness: generate_video returned for a job that ended in FAILED
C9_Witness ==
    \E p \in DOMAIN item :
        /\ item[p].done
        /\ item[p].status = "FAILED"
        /\ item[p].queries = 2

\* C10: with RUNWAY_API_KEY unset or empty the video stage ends in main's
\* handler before any processing: videos/ is not created, no prompt file is
\* read, no job created, no status queried, nothing downloaded.
C10_NoKeyNoProcessing ==
    runwayKey \in {"unset", "empty"} =>
        /\ pc \notin {"v_start", "v_loop", "g_read", "g_find", "g_encode",
                      "g_create", "g_first_wait", "g_first_retrieve",
                      "g_while", "g_wait", "g_retrieve", "g_result", "d_get",
                      "d_open", "d_stream"}
        /\ pc = "v_done" => "Error in main" \in mainLog
        /\ startVideos = {} => "videos" \notin dirs
        /\ DOMAIN item = {}
        /\ videos = [n \in startVideos |-> "old"]

\* C10 witness: the video stage ended with an empty key although prompts/
\* holds prompt files and videos/ does not exist
C10_Witness ==
    /\ runwayKey = "empty"
    /\ pc = "v_done"
    /\ glob(DOMAIN prompts) # {}
    /\ startVideos = {}

\* a job was created for the prompt file: image_to_video.create returned
JobCreated(p) ==
    item[p].waits > 0 \/ (vcur = p /\ pc = "g_first_wait")

\* the job of the item was observed in a terminal status and, when a download
\* was started for it, download_video has returned
Settled(rec) ==
    rec.status \in {"SUCCEEDED", "FAILED"} /\ rec.download # "started"

\* the polling of the item was ended by a status query that raised
QueryRaised(rec) ==
    /\ rec.done
    /\ rec.status \notin {"SUCCEEDED", "FAILED"}
    /\ "Error processing" \in rec.logs

\* C11 as stated: of two created jobs one was observed in a terminal status
\* (and its download, if any, has returned) before the other was created: at
\* most one created job is not yet observed terminal at any time.
C11_OneJobNotTerminal ==
    \A p, q \in DOMAIN item :
        (p # q /\ JobCreated(p) /\ JobCreated(q)) =>
            Settled(item[p]) \/ Settled(item[q])

\* C11 amended: the video stage processes the prompt files one after another:
\* at most one generate_video is running at any time, and a job for the next
\* prompt file is created only after generate_video has returned for every
\* prompt file started before, each job created before having been observed in
\* a terminal status (and its download, if any, having returned) unless one of
\* its status queries raised.
C11_Sequential ==
    /\ \A p \in DOMAIN item :
          (item[p].started /\ ~item[p].done) =>
              /\ p = vcur
              /\ pc \notin {"v_loop", "v_done"}
    /\ \A p, q \in DOMAIN item :
          (p # q /\ JobCreated(p) /\ JobCreated(q)) =>
              \/ item[p].done /\ (Settled(item[p]) \/ QueryRaised(item[p]))
              \/ item[q].done /\ (Settled(item[q]) \/ QueryRaised(item[q]))

\* C11 witness: a second job is polled after the first one was observed in a
\* terminal status and its download returned
C11_Witness ==
    \E p, q \in DOMAIN item :
        /\ p # q
        /\ item[p].done /\ item[p].status = "SUCCEEDED"
        /\ item[p].download = "finished"
        /\ q = vcur /\ pc = "g_retrieve" /\ item[q].queries = 1

\* C12: once process_all_prompts has entered its loop it eventually finishes
\* (every job reports a terminal status within MaxQueries queries), and it has
\* then called generate_video exactly once for every file of prompts/ matching
\* *_prompt.txt; and the poll loop of a job has no other exit than a terminal
\* status (or a query that raises): while the queries return PENDING or
\* RUNNING the program stays in the loop and no other prompt file is started.
C12_FinishesOrPollsForever ==
    /\ (pc = "v_loop") ~> (pc = "v_done")
    /\ [](\A p \in DOMAIN item : item[p].calls <= 1)
    /\ []((pc = "v_done" /\ runwayKey = "set" /\ mainLog = {}) =>
            /\ DOMAIN item = glob(DOMAIN prompts)
            /\ \A p \in DOMAIN item : item[p].calls = 1 /\ item[p].done)
    /\ [][(/\ pc \in {"g_while", "g_wait", "g_retrieve"}
           /\ item[vcur].status \in {"PENDING", "RUNNING"}
           /\ item'[vcur].status \in {"PENDING", "RUNNING"}
           /\ "Error processing" \notin item'[vcur].logs)
          => (/\ pc' \in {"g_while", "g_wait", "g_retrieve"}
              /\ vcur' = vcur
              /\ vtodo' = vtodo)]_vars

\* C12 witness: process_all_prompts has finished with two prompt files, each
\* with a job that was queried at least twice
C12_Witness ==
    /\ pc = "v_done" /\ mainLog = {} /\ runwayKey = "set"
    /\ Cardinality(DOMAIN item) = 2
    /\ \A p \in DOMAIN item : item[p].calls = 1 /\ item[p].queries >= 2

\* C13 as stated: for every image whose prompt was saved, the identifier that
\* generate_video derives from the name of the prompt file save_prompt wrote
\* is the stem of the image, so the companion looked up is <stem>.jpg and the
\* video is <stem>.mp4.
C13_IdentifierRoundTrip ==
    \A f \in photos :
        (IsImage(f) /\ img[f].save = "ok") =>
            /\ image_name(output_file(stem(f))) = stem(f)
            /\ image_path(output_file(stem(f))) = stem(f) \o JPG
            /\ output_path(output_file(stem(f))) = stem(f) \o MP4

\* C14 as stated, for the images whose identifier is derived back unchanged:
\* an image accepted by the prompt stage whose prompt was saved is never
\* reported as 'Could not find image' by the video stage (input-photos/ is not
\* changed by either stage, so the image is still present).
C14_AcceptedImageIsFound ==
    \A f \in photos :
        \A p \in DOMAIN item :
            (/\ IsImage(f) /\ img[f].save = "ok"
             /\ p = output_file(stem(f))
             /\ image_name(p) = stem(f)) =>
                "Could not find image" \notin item[p].logs

\* C15: within one run each image causes at most one vision-API request, and
\* each prompt file at most one call of generate_video, one job-creation
\* request and one download attempt, whatever their outcome; an image or item
\* that is finished after such a call has made exactly one.
C15_NoRetry ==
    /\ \A f \in photos :
          /\ img[f].requests <= 1
          /\ (PhotoFinished(f) /\ img[f].vision # "none") => img[f].requests = 1
    /\ \A p \in DOMAIN item :
          /\ item[p].calls <= 1
          /\ item[p].creates <= 1
          /\ item[p].downloads <= 1
          /\ (item[p].done /\ item[p].returned = "False")
                => item[p].downloads = 1

\* C15 witness: the run is over with an image whose vision request failed, a
\* prompt file whose creation request failed and one whose download failed
C15_Witness ==
    /\ pc = "v_done"
    /\ \E f \in photos : img[f].requests = 1 /\ img[f].vision = "error"
    /\ \E p, q \in DOMAIN item :
          /\ p # q
          /\ item[p].creates = 1 /\ item[p].waits = 0
          /\ "Error processing" \in item[p].logs
          /\ item[q].downloads = 1 /\ item[q].returned = "False"

\* C16: every status query is immediately preceded by exactly one 10-second
\* wait: right before a query the job has had one wait more than queries, at
\* every other moment (before the first wait, after each query, at the end of
\* the polling) as many waits as queries.
C16_OneWaitPerQuery ==
    \A p \in DOMAIN item :
        /\ item[p].waits =
              item[p].queries
                + (IF p = vcur /\ pc \in {"g_first_retrieve", "g_retrieve"}
                   THEN 1 ELSE 0)
        /\ item[p].queries > 0 => item[p].creates = 1

\* C16 witness: the polling of a job ended after three queries and three waits
C16_Witness ==
    \E p \in DOMAIN item :
        /\ item[p].done
        /\ item[p].status = "SUCCEEDED"
        /\ item[p].queries = 3
        /\ item[p].waits = 3

====
